---- MODULE Spec2Model ----
(***************************************************************************)
(* Model of the Ledger command-line tool (cli/src/main.rs): one process    *)
(* run, from reading the environment to the process exit.  The external    *)
(* ledger_manager / hidapi primitives are nondeterministic in their        *)
(* outcome; every call, its arguments and its outcome are logged in        *)
(* `calls`, every line the run prints in `stdout` / `stderr`.              *)
(***************************************************************************)
EXTENDS Naturals, Sequences, FiniteSets

VARIABLES
    LEDGER_COMMAND,   \* environment variable, see EnvValues
    LEDGER_TESTNET,   \* environment variable
    LEDGER_SOLANA,    \* environment variable
    pc,               \* position of the run in main
    command,          \* <<>> until Command::get returned Some(c), then <<c>>
    calls,            \* external calls made so far, in order, with outcome
    stdout,           \* lines printed with println!
    stderr,           \* lines printed with eprintln! or by the panic handler
    exit_status       \* <<>> while the process runs, <<n>> once it has ended

vars == <<LEDGER_COMMAND, LEDGER_TESTNET, LEDGER_SOLANA, pc, command, calls,
          stdout, stderr, exit_status>>

env == <<LEDGER_COMMAND, LEDGER_TESTNET, LEDGER_SOLANA>>

----------------------------------------------------------------------------
(* Bounds and input sets.                                                  *)

\* Longest list of installed applications the device reports.
MaxApps == 2

\* Display texts of the opaque errors the primitives return.
ErrTexts == {"", "timeout", "Could not get info about Bitcoin app."}

\* Debug texts of the device information and of the installed applications.
DeviceInfos == {"DeviceInfo { version: 2.1.0 }"}
AppDescs == {"Bitcoin", "Solana"}

SeqsUpTo(S, n) == UNION {[1..k -> S] : k \in 0..n}

\* An environment variable is unset, set to bytes that are not valid
\* Unicode, or set to a string.
Unset == [set |-> FALSE, unicode |-> FALSE, val |-> ""]
NotUnicode == [set |-> TRUE, unicode |-> FALSE, val |-> ""]
Str(s) == [set |-> TRUE, unicode |-> TRUE, val |-> s]

Keywords == {"getinfo", "genuinecheck", "installapp", "updateapp", "openapp",
             "updatefirm"}
OtherWords == {"", "GETINFO", "install", "getinfo ", "updatefirmware"}

CommandValues == {Unset, NotUnicode} \cup {Str(s) : s \in Keywords \cup OtherWords}
FlagValues == {Unset, NotUnicode, Str(""), Str("1")}

----------------------------------------------------------------------------
(* std::env::var: Ok(value) when the variable is set to valid Unicode,     *)
(* Err otherwise.  Options are sequences of length at most one.            *)

env_var_is_ok(v) == v.set /\ v.unicode

env_var_ok(v) == IF v.set /\ v.unicode THEN <<v.val>> ELSE <<>>

None == <<>>
Some(x) == <<x>>

\* Variants of Command::get with one slip each.
\* An unrecognised keyword falls back to GetInfo.
Command_get_default(cmd_var, testnet_var, solana_var) ==
    LET is_testnet == env_var_is_ok(testnet_var)
        is_solana == env_var_is_ok(solana_var)
        cmd_opt == env_var_ok(cmd_var)
        variant == IF is_solana THEN "Solana"
                   ELSE IF is_testnet THEN "TestApp" ELSE "MainApp"
    IN  IF cmd_opt = None THEN None
        ELSE IF cmd_opt[1] = "genuinecheck" THEN Some("GenuineCheck")
        ELSE IF cmd_opt[1] = "installapp" THEN Some("Install" \o variant)
        ELSE IF cmd_opt[1] = "updateapp" THEN Some("Update" \o variant)
        ELSE IF cmd_opt[1] = "openapp" THEN Some("Open" \o variant)
        ELSE IF cmd_opt[1] = "updatefirm" THEN Some("UpdateFirmware")
        ELSE Some("GetInfo")

\* The testnet test comes before the Solana test.
Command_get_testnet_first(cmd_var, testnet_var, solana_var) ==
    LET is_testnet == env_var_is_ok(testnet_var)
        is_solana == env_var_is_ok(solana_var)
        cmd_opt == env_var_ok(cmd_var)
        variant == IF is_testnet THEN "TestApp"
                   ELSE IF is_solana THEN "Solana" ELSE "MainApp"
    IN  IF cmd_opt = None THEN None
        ELSE IF cmd_opt[1] = "getinfo" THEN Some("GetInfo")
        ELSE IF cmd_opt[1] = "genuinecheck" THEN Some("GenuineCheck")
        ELSE IF cmd_opt[1] = "installapp" THEN Some("Install" \o variant)
        ELSE IF cmd_opt[1] = "updateapp" THEN Some("Update" \o variant)
        ELSE IF cmd_opt[1] = "openapp" THEN Some("Open" \o variant)
        ELSE IF cmd_opt[1] = "updatefirm" THEN Some("UpdateFirmware")
        ELSE None

\* The Solana test comes before the keyword test, and the keywords that
\* name no application are then not recognised.
Command_get_flag_first(cmd_var, testnet_var, solana_var) ==
    LET is_testnet == env_var_is_ok(testnet_var)
        is_solana == env_var_is_ok(solana_var)
        cmd_opt == env_var_ok(cmd_var)
    IN  IF cmd_opt = None THEN None
        ELSE IF is_solana THEN
            IF cmd_opt[1] = "installapp" THEN Some("InstallSolana")
            ELSE IF cmd_opt[1] = "updateapp" THEN Some("UpdateSolana")
            ELSE IF cmd_opt[1] = "openapp" THEN Some("OpenSolana")
            ELSE None
        ELSE LET variant == IF is_testnet THEN "TestApp" ELSE "MainApp"
             IN  IF cmd_opt[1] = "getinfo" THEN Some("GetInfo")
                 ELSE IF cmd_opt[1] = "genuinecheck" THEN Some("GenuineCheck")
                 ELSE IF cmd_opt[1] = "installapp" THEN Some("Install" \o variant)
                 ELSE IF cmd_opt[1] = "updateapp" THEN Some("Update" \o variant)
                 ELSE IF cmd_opt[1] = "openapp" THEN Some("Open" \o variant)
                 ELSE IF cmd_opt[1] = "updatefirm" THEN Some("UpdateFirmware")
                 ELSE None

(* Command::get, on the values of the three variables.                     *)
Command_get(cmd_var, testnet_var, solana_var) ==
    LET is_testnet == env_var_is_ok(testnet_var)
        is_solana == env_var_is_ok(solana_var)
        cmd_opt == env_var_ok(cmd_var)
    IN  IF cmd_opt = None THEN None
        ELSE LET cmd_str == cmd_opt[1]
             IN  IF cmd_str = "getinfo" THEN Some("GetInfo")
                 ELSE IF cmd_str = "genuinecheck" THEN Some("GenuineCheck")
                 ELSE IF cmd_str = "installapp" THEN
                     IF is_solana THEN Some("InstallSolana")
                     ELSE IF is_testnet THEN Some("InstallTestApp")
                     ELSE Some("InstallMainApp")
                 ELSE IF cmd_str = "updateapp" THEN
                     IF is_solana THEN Some("UpdateSolana")
                     ELSE IF is_testnet THEN Some("UpdateTestApp")
                     ELSE Some("UpdateMainApp")
                 ELSE IF cmd_str = "openapp" THEN
                     IF is_solana THEN Some("OpenSolana")
                     ELSE IF is_testnet THEN Some("OpenTestApp")
                     ELSE Some("OpenMainApp")
                 ELSE IF cmd_str = "updatefirm" THEN Some("UpdateFirmware")
                 ELSE None

----------------------------------------------------------------------------
(* The ways a run ends.                                                    *)

ExitFailure == 1
PanicExitStatus == 101

\* error! with process::exit(-1), which the shell sees as 255.
error_255(msg) ==
    /\ stderr' = Append(stderr, msg)
    /\ exit_status' = <<255>>
    /\ pc' = "exited"

\* main returns: the process ends with status 0.
main_returns ==
    /\ stderr' = stderr
    /\ exit_status' = <<0>>
    /\ pc' = "exited"

\* error!: print on stderr and exit with 1.
error(msg) ==
    /\ stderr' = Append(stderr, msg)
    /\ exit_status' = <<ExitFailure>>
    /\ pc' = "exited"

\* unimplemented!(): the panic handler prints the message, the process ends
\* with the status of a panicking main thread.
unimplemented ==
    /\ stderr' = Append(stderr, "not implemented")
    /\ exit_status' = <<PanicExitStatus>>
    /\ pc' = "exited"


\* One logged external call.
Call(fn, args, result, err) ==
    [fn |-> fn, args |-> args, result |-> result, err |-> err]

BoolArg(b) == IF b THEN "true" ELSE "false"

----------------------------------------------------------------------------
Init ==
    /\ LEDGER_COMMAND \in CommandValues
    /\ LEDGER_TESTNET \in FlagValues
    /\ LEDGER_SOLANA \in FlagValues
    /\ pc = "main"
    /\ command = None
    /\ calls = <<>>
    /\ stdout = <<>>
    /\ stderr = <<>>
    /\ exit_status = <<>>

UsageMsg == "Invalid or no command specified. The command must be passed through the LEDGER_COMMAND env var. Set LEDGER_TESTNET to use the Bitcoin testnet app instead where applicable."

\* main, lines 183-187: resolve the command or report and exit.
main_get_command ==
    /\ pc = "main"
    /\ command' = Command_get(LEDGER_COMMAND, LEDGER_TESTNET, LEDGER_SOLANA)
    /\ IF command' = None
       THEN error(UsageMsg)
       ELSE /\ pc' = "ledger_api"
            /\ UNCHANGED <<stderr, exit_status>>
    /\ UNCHANGED <<env, calls, stdout>>

\* ledger_api, lines 78-81.
ledger_api_hid ==
    /\ pc = "ledger_api"
    /\ \/ /\ calls' = Append(calls, Call("HidApi::new", <<>>, "Ok", ""))
          /\ pc' = "ledger_api_transport"
          /\ UNCHANGED <<stderr, exit_status>>
       \/ \E e \in ErrTexts :
          /\ calls' = Append(calls, Call("HidApi::new", <<>>, "Err", e))
          /\ error("Error initializing HDI api: " \o e \o ".")
    /\ UNCHANGED <<env, command, stdout>>

\* ledger_api with the failure of the transport reported but not fatal.
ledger_api_transport_ignored ==
    /\ pc = "ledger_api_transport"
    /\ \/ /\ calls' = Append(calls, Call("TransportNativeHID::new", <<>>, "Ok", ""))
          /\ stderr' = stderr
       \/ \E e \in ErrTexts :
          /\ calls' = Append(calls, Call("TransportNativeHID::new", <<>>, "Err", e))
          /\ stderr' = Append(stderr, "Error connecting to Ledger device: " \o e \o ".")
    /\ pc' = "match_command"
    /\ UNCHANGED <<env, command, stdout, exit_status>>

\* ledger_api, lines 82-85.
ledger_api_transport ==
    /\ pc = "ledger_api_transport"
    /\ \/ /\ calls' = Append(calls, Call("TransportNativeHID::new", <<>>, "Ok", ""))
          /\ pc' = "match_command"
          /\ UNCHANGED <<stderr, exit_status>>
       \/ \E e \in ErrTexts :
          /\ calls' = Append(calls, Call("TransportNativeHID::new", <<>>, "Err", e))
          /\ error("Error connecting to Ledger device: " \o e \o ".")
    /\ UNCHANGED <<env, command, stdout>>

----------------------------------------------------------------------------
(* The workflows.  Each action runs from one external call to the next one *)
(* or to the end of the process.                                           *)

\* device_info with the failure reported through eprintln! alone.
print_ledger_info_no_exit ==
    /\ \/ \E i \in DeviceInfos :
          /\ calls' = Append(calls, Call("DeviceInfo::new", <<>>, "Ok", ""))
          /\ stdout' = stdout \o
                <<"Information about the device: " \o i,
                  "Querying installed applications from your Ledger. You might have to confirm on your device.">>
          /\ stderr' = stderr
       \/ \E e \in ErrTexts :
          /\ calls' = Append(calls, Call("DeviceInfo::new", <<>>, "Err", e))
          /\ stderr' = Append(stderr, "Error fetching device info: " \o e)
          /\ stdout' = Append(stdout,
                "Querying installed applications from your Ledger. You might have to confirm on your device.")
    /\ pc' = "list_installed_apps"
    /\ exit_status' = exit_status

\* device_info (lines 88-93) and print_ledger_info up to line 99.
print_ledger_info ==
    /\ \/ \E i \in DeviceInfos :
          /\ calls' = Append(calls, Call("DeviceInfo::new", <<>>, "Ok", ""))
          /\ stdout' = stdout \o
                <<"Information about the device: " \o i,
                  "Querying installed applications from your Ledger. You might have to confirm on your device.">>
          /\ pc' = "list_installed_apps"
          /\ UNCHANGED <<stderr, exit_status>>
       \/ \E e \in ErrTexts :
          /\ calls' = Append(calls, Call("DeviceInfo::new", <<>>, "Err", e))
          /\ error("Error fetching device info: " \o e)
          /\ stdout' = stdout

\* print_ledger_info, lines 100-108, and the return from main.
print_ledger_info_list ==
    /\ pc = "list_installed_apps"
    /\ \/ \E apps \in SeqsUpTo(AppDescs, MaxApps) :
          /\ calls' = Append(calls, Call("list_installed_apps", <<>>, "Ok", ""))
          /\ stdout' = stdout \o <<"Installed applications:">> \o
                [k \in 1..Len(apps) |-> "  - " \o apps[k]]
          /\ main_returns
       \/ \E e \in ErrTexts :
          /\ calls' = Append(calls, Call("list_installed_apps", <<>>, "Err", e))
          /\ error("Error listing installed applications: " \o e \o ".")
          /\ stdout' = stdout
    /\ UNCHANGED <<env, command>>

GenuineQueryMsg == "Querying Ledger's remote HSM to perform the genuine check. You might have to confirm the operation on your device."
GenuineMsg == "Success. Your Ledger is genuine."

\* perform_genuine_check with the failure reported through eprintln! alone.
perform_genuine_check_no_exit ==
    /\ \/ /\ calls' = Append(calls, Call("genuine_check", <<>>, "Ok", ""))
          /\ stderr' = stderr
       \/ \E e \in ErrTexts :
          /\ calls' = Append(calls, Call("genuine_check", <<>>, "Err", e))
          /\ stderr' = Append(stderr, "Error when performing genuine check: " \o e)
    /\ stdout' = stdout \o <<GenuineQueryMsg, GenuineMsg>>
    /\ exit_status' = <<0>>
    /\ pc' = "exited"

\* perform_genuine_check, lines 110-116.
perform_genuine_check ==
    /\ \/ /\ calls' = Append(calls, Call("genuine_check", <<>>, "Ok", ""))
          /\ stdout' = stdout \o <<GenuineQueryMsg, GenuineMsg>>
          /\ main_returns
       \/ \E e \in ErrTexts :
          /\ calls' = Append(calls, Call("genuine_check", <<>>, "Err", e))
          /\ stdout' = Append(stdout, GenuineQueryMsg)
          /\ error("Error when performing genuine check: " \o e)

AllowMsg == "You may have to allow on your device 1) listing installed apps 2) the Ledger manager to install the app."

\* The variants of InstallErr and of UpdateErr.
InstallErr == {"AlreadyInstalled", "AppNotFound", "Any"}
UpdateErr == {"NotInstalled", "AppNotFound", "AlreadyLatest", "Any"}

\* The payload of an error value: Any(e) wraps an error, the others nothing.
ErrPayloads(variant) == IF variant = "Any" THEN ErrTexts ELSE {""}

\* install_bitcoin, the Err arms of the match (lines 123-127).
install_bitcoin_error(r, e) ==
    CASE r = "AlreadyInstalled" ->
            "Bitcoin app already installed. Use the update command to update it."
      [] r = "AppNotFound" -> "Could not get info about Bitcoin app."
      [] r = "Any" -> "Error installing Bitcoin app: " \o e \o "."

\* install_bitcoin, lines 119-129.
install_bitcoin(is_testnet) ==
    \/ /\ calls' = Append(calls,
             Call("install_bitcoin_app", <<BoolArg(is_testnet)>>, "Ok", ""))
       /\ stdout' = stdout \o <<AllowMsg, "Successfully installed the app.">>
       /\ main_returns
    \/ \E r \in InstallErr : \E e \in ErrPayloads(r) :
       /\ calls' = Append(calls,
             Call("install_bitcoin_app", <<BoolArg(is_testnet)>>, r, e))
       /\ stdout' = Append(stdout, AllowMsg)
       /\ error(install_bitcoin_error(r, e))

\* update_bitcoin with the AlreadyLatest arm a copy of the AppNotFound arm.
update_bitcoin_error_copied(r, e) ==
    CASE r = "NotInstalled" ->
            "Bitcoin app isn't installed. Use the install command instead."
      [] r = "AppNotFound" -> "Could not get info about Bitcoin app."
      [] r = "AlreadyLatest" -> "Could not get info about Bitcoin app."
      [] r = "Any" -> "Error installing Bitcoin app: " \o e \o "."

\* update_bitcoin, the Err arms of the match (lines 135-140).
update_bitcoin_error(r, e) ==
    CASE r = "NotInstalled" ->
            "Bitcoin app isn't installed. Use the install command instead."
      [] r = "AppNotFound" -> "Could not get info about Bitcoin app."
      [] r = "AlreadyLatest" -> "Bitcoin app is already at the latest version."
      [] r = "Any" -> "Error installing Bitcoin app: " \o e \o "."

\* update_bitcoin, lines 131-142.
update_bitcoin(is_testnet) ==
    \/ /\ calls' = Append(calls,
             Call("update_bitcoin_app", <<BoolArg(is_testnet)>>, "Ok", ""))
       /\ stdout' = stdout \o <<AllowMsg, "Successfully updated the app.">>
       /\ main_returns
    \/ \E r \in UpdateErr : \E e \in ErrPayloads(r) :
       /\ calls' = Append(calls,
             Call("update_bitcoin_app", <<BoolArg(is_testnet)>>, r, e))
       /\ stdout' = Append(stdout, AllowMsg)
       /\ error(update_bitcoin_error(r, e))

\* open_bitcoin, lines 144-148.
open_bitcoin(is_testnet) ==
    /\ stdout' = stdout
    /\ \/ /\ calls' = Append(calls,
                Call("open_bitcoin_app", <<BoolArg(is_testnet)>>, "Ok", ""))
          /\ main_returns
       \/ \E e \in ErrTexts :
          /\ calls' = Append(calls,
                Call("open_bitcoin_app", <<BoolArg(is_testnet)>>, "Err", e))
          /\ error("Error opening Bitcoin app: " \o e)

\* install_solana, the Err arms of the match (lines 155-159).
install_solana_error(r, e) ==
    CASE r = "AlreadyInstalled" ->
            "Solana app already installed. Use the update command to update it."
      [] r = "AppNotFound" -> "Could not get info about Solana app."
      [] r = "Any" -> "Error installing Solana app: " \o e \o "."

\* install_solana, lines 151-161.
install_solana ==
    \/ /\ calls' = Append(calls,
             Call("install_app", <<"LedgerApp::Solana">>, "Ok", ""))
       /\ stdout' = stdout \o <<AllowMsg, "Successfully installed the Solana app.">>
       /\ main_returns
    \/ \E r \in InstallErr : \E e \in ErrPayloads(r) :
       /\ calls' = Append(calls,
             Call("install_app", <<"LedgerApp::Solana">>, r, e))
       /\ stdout' = Append(stdout, AllowMsg)
       /\ error(install_solana_error(r, e))

\* update_solana, the Err arms of the match (lines 167-172).
update_solana_error(r, e) ==
    CASE r = "NotInstalled" ->
            "Solana app isn't installed. Use the install command instead."
      [] r = "AppNotFound" -> "Could not get info about Solana app."
      [] r = "AlreadyLatest" -> "Solana app is already at the latest version."
      [] r = "Any" -> "Error updating Solana app: " \o e \o "."

\* update_solana, lines 163-174.
update_solana ==
    \/ /\ calls' = Append(calls,
             Call("update_app", <<"LedgerApp::Solana">>, "Ok", ""))
       /\ stdout' = stdout \o <<AllowMsg, "Successfully updated the Solana app.">>
       /\ main_returns
    \/ \E r \in UpdateErr : \E e \in ErrPayloads(r) :
       /\ calls' = Append(calls,
             Call("update_app", <<"LedgerApp::Solana">>, r, e))
       /\ stdout' = Append(stdout, AllowMsg)
       /\ error(update_solana_error(r, e))

\* open_solana, lines 176-180.
open_solana ==
    /\ stdout' = stdout
    /\ \/ /\ calls' = Append(calls,
                Call("open_app", <<"LedgerApp::Solana">>, "Ok", ""))
          /\ main_returns
       \/ \E e \in ErrTexts :
          /\ calls' = Append(calls,
                Call("open_app", <<"LedgerApp::Solana">>, "Err", e))
          /\ error("Error opening Solana app: " \o e)

\* The UpdateFirmware arm left empty.
update_firmware_empty ==
    /\ main_returns
    /\ UNCHANGED <<calls, stdout>>

\* The UpdateFirmware arm of main's match, lines 224-226.
update_firmware ==
    /\ unimplemented
    /\ UNCHANGED <<calls, stdout>>

\* One arm of main's match: the arm of command c runs the workflow.
match_arm(c, workflow) ==
    /\ pc = "match_command"
    /\ command = Some(c)
    /\ workflow
    /\ UNCHANGED <<env, command>>

\* main, lines 190-227: the match on the resolved command.
main_match ==
    \/ match_arm("GetInfo", print_ledger_info)
    \/ match_arm("GenuineCheck", perform_genuine_check)
    \/ match_arm("InstallMainApp", install_bitcoin(FALSE))
    \/ match_arm("InstallTestApp", install_bitcoin(TRUE))
    \/ match_arm("OpenMainApp", open_bitcoin(FALSE))
    \/ match_arm("OpenTestApp", open_bitcoin(TRUE))
    \/ match_arm("UpdateMainApp", update_bitcoin(FALSE))
    \/ match_arm("UpdateTestApp", update_bitcoin(TRUE))
    \/ match_arm("InstallSolana", install_solana)
    \/ match_arm("UpdateSolana", update_solana)
    \/ match_arm("OpenSolana", open_solana)
    \/ match_arm("UpdateFirmware", update_firmware)

Next ==
    \/ main_get_command
    \/ ledger_api_hid
    \/ ledger_api_transport
    \/ main_match
    \/ print_ledger_info_list

Spec == Init /\ [][Next]_vars

----------------------------------------------------------------------------
(* Vocabulary of the properties.                                           *)

Exited == exit_status /= <<>>

Range(q) == {q[k] : k \in 1..Len(q)}

CalledFns == {calls[k].fn : k \in 1..Len(calls)}

TransportFns == {"HidApi::new", "TransportNativeHID::new"}

DevicePrimitives ==
    {"DeviceInfo::new", "list_installed_apps", "genuine_check",
     "install_bitcoin_app", "update_bitcoin_app", "open_bitcoin_app",
     "install_app", "update_app", "open_app"}

\* LEDGER_COMMAND holds one of the six keywords.
IsKeyword(v) == v.set /\ v.unicode /\ v.val \in Keywords

\* The two flags as Command::get reads them.
TestnetFlag == env_var_is_ok(LEDGER_TESTNET)
SolanaFlag == env_var_is_ok(LEDGER_SOLANA)

Resolved == pc /= "main"

----------------------------------------------------------------------------
\* C1: when LEDGER_COMMAND is absent or is none of the six keywords, whatever
\* the two flags are, Command::get returns None and the run prints the usage
\* message on stderr and exits with status 1; it never initialises the HID
\* API, never opens the transport and never calls a device primitive.
C1_InvalidCommandUsageNoDevice ==
    ~IsKeyword(LEDGER_COMMAND) =>
        /\ calls = <<>>
        /\ stdout = <<>>
        /\ Resolved =>
            /\ command = None
            /\ stderr = <<UsageMsg>>
            /\ exit_status = <<1>>
            /\ pc = "exited"

C1_Witness ==
    /\ LEDGER_COMMAND = Str("GETINFO")
    /\ env_var_is_ok(LEDGER_SOLANA)
    /\ Exited

\* C2: for installapp, updateapp and openapp and each of the four
\* combinations of the two flags the resolver returns exactly one operation:
\* the Solana variant when the alternate flag is set, else the Bitcoin testnet
\* variant when the testnet flag is set, else the Bitcoin mainnet variant; the
\* keyword alone decides between install, update and open.
C2_Kind(keyword) ==
    CASE keyword = "installapp" -> "Install"
      [] keyword = "updateapp" -> "Update"
      [] keyword = "openapp" -> "Open"

C2_Target == IF SolanaFlag THEN "Solana"
             ELSE IF TestnetFlag THEN "TestApp" ELSE "MainApp"

C2_Precedence ==
    \A keyword \in {"installapp", "updateapp", "openapp"} :
        (LEDGER_COMMAND = Str(keyword) /\ Resolved) =>
            command = Some(C2_Kind(keyword) \o C2_Target)

C2_Witness ==
    /\ LEDGER_COMMAND = Str("updateapp")
    /\ SolanaFlag /\ TestnetFlag
    /\ command = Some("UpdateSolana")
    /\ Exited

\* C8: for getinfo, genuinecheck and updatefirm the resolved operation is the
\* one the keyword names, and it is what the resolver returns for that keyword
\* under every other setting of the two flags.
C8_Operation(keyword) ==
    CASE keyword = "getinfo" -> "GetInfo"
      [] keyword = "genuinecheck" -> "GenuineCheck"
      [] keyword = "updatefirm" -> "UpdateFirmware"

C8_FlagsIgnored ==
    \A keyword \in {"getinfo", "genuinecheck", "updatefirm"} :
        (LEDGER_COMMAND = Str(keyword) /\ Resolved) =>
            /\ command = Some(C8_Operation(keyword))
            /\ \A t, a \in FlagValues :
                  Command_get(LEDGER_COMMAND, t, a) = command

C8_Witness ==
    /\ LEDGER_COMMAND = Str("genuinecheck")
    /\ SolanaFlag /\ TestnetFlag
    /\ command = Some("GenuineCheck")
    /\ Resolved

HidOk == Call("HidApi::new", <<>>, "Ok", "")
TransportOk == Call("TransportNativeHID::new", <<>>, "Ok", "")

\* The last external call of the run so far.
LastCall == calls[Len(calls)]

----------------------------------------------------------------------------
\* C3 (as stated): with the keyword updatefirm resolution gives
\* UpdateFirmware, the run always ends in the 'not implemented' failure, and
\* before that no device call is attempted: no HID initialisation, no
\* transport open, no device primitive.
C3_FirmwareNeverTouchesDevice ==
    LEDGER_COMMAND = Str("updatefirm") =>
        /\ Resolved => command = Some("UpdateFirmware")
        /\ calls = <<>>
        /\ Exited => stderr = <<"not implemented">>

\* C3 (amended): with the keyword updatefirm resolution gives UpdateFirmware
\* and no device-management primitive is ever invoked, but the run first
\* initialises the HID API and opens the transport; it ends in the 'not
\* implemented' failure exactly when both succeeded, and in the transport
\* error with status 1 otherwise.  It never ends with status 0.
C3_FirmwareNoPrimitive ==
    LEDGER_COMMAND = Str("updatefirm") =>
        /\ Resolved => command = Some("UpdateFirmware")
        /\ CalledFns \subseteq TransportFns
        /\ stdout = <<>>
        /\ Exited =>
            /\ exit_status /= <<0>>
            /\ calls /= <<>>
            /\ IF calls = <<HidOk, TransportOk>>
               THEN stderr = <<"not implemented">>
               ELSE /\ LastCall.result = "Err"
                    /\ exit_status = <<1>>
                    /\ stderr /= <<"not implemented">>

C3_Witness ==
    /\ LEDGER_COMMAND = Str("updatefirm")
    /\ calls = <<HidOk, TransportOk>>
    /\ stderr = <<"not implemented">>
    /\ Exited

----------------------------------------------------------------------------
\* The outcomes of a run that has ended.
Completed ==
    /\ calls /= <<>>
    /\ \A k \in 1..Len(calls) : calls[k].result = "Ok"
    /\ LastCall.fn \in DevicePrimitives \ {"DeviceInfo::new"}

ConfigurationError == Resolved /\ command = None

\* TransportError, DeviceQueryError, GenuineCheckError, InstallError,
\* UpdateError, OpenError: an external call returned an error.
PrimitiveError == calls /= <<>> /\ LastCall.result /= "Ok"

Unimplemented ==
    /\ command = Some("UpdateFirmware")
    /\ calls = <<HidOk, TransportOk>>

\* C4 (as stated): the process ends with status 0 if the workflow completed
\* and with status exactly 1 on a failure of any kind, Unimplemented included.
C4_UniformExitStatus ==
    Exited =>
        IF Completed THEN exit_status = <<0>> ELSE exit_status = <<1>>

\* C4 (amended): the process ends with status 0 exactly when the workflow
\* completed, with status 1 on a ConfigurationError, TransportError,
\* DeviceQueryError, GenuineCheckError, InstallError, UpdateError or
\* OpenError, and with the status of a panic, 101, on Unimplemented.
C4_ExitStatus ==
    Exited =>
        /\ Completed <=> exit_status = <<0>>
        /\ (ConfigurationError \/ PrimitiveError) <=> exit_status = <<1>>
        /\ Unimplemented <=> exit_status = <<PanicExitStatus>>
        /\ Completed \/ ConfigurationError \/ PrimitiveError \/ Unimplemented

C4_Witness ==
    /\ Exited
    /\ calls /= <<>>
    /\ LastCall.fn = "open_app"
    /\ LastCall.result = "Err"
    /\ exit_status = <<1>>

----------------------------------------------------------------------------
C5_Fns == {"install_bitcoin_app", "update_bitcoin_app", "install_app", "update_app"}

C5_Errors(fn) ==
    IF fn \in {"install_bitcoin_app", "install_app"} THEN InstallErr ELSE UpdateErr

C5_Message(fn, r, e) ==
    CASE fn = "install_bitcoin_app" -> install_bitcoin_error(r, e)
      [] fn = "update_bitcoin_app" -> update_bitcoin_error(r, e)
      [] fn = "install_app" -> install_solana_error(r, e)
      [] fn = "update_app" -> update_solana_error(r, e)

C5_Confirmation(fn) ==
    CASE fn = "install_bitcoin_app" -> "Successfully installed the app."
      [] fn = "update_bitcoin_app" -> "Successfully updated the app."
      [] fn = "install_app" -> "Successfully installed the Solana app."
      [] fn = "update_app" -> "Successfully updated the Solana app."

\* C5: in the install and update workflows of both applications every failure
\* value of the primitive gives one non-empty line on stderr and a non-zero
\* exit status, and that line differs from the line of every other failure
\* kind of the same workflow; a success gives the confirmation on stdout,
\* nothing on stderr and status 0.
C5_InstallUpdateReporting ==
    \A k \in 1..Len(calls) :
        calls[k].fn \in C5_Fns =>
            IF calls[k].result = "Ok"
            THEN /\ stdout /= <<>>
                 /\ stdout[Len(stdout)] = C5_Confirmation(calls[k].fn)
                 /\ stderr = <<>>
                 /\ exit_status = <<0>>
            ELSE /\ calls[k].result \in C5_Errors(calls[k].fn)
                 /\ Len(stderr) = 1
                 /\ stderr[1] /= ""
                 /\ stderr[1] = C5_Message(calls[k].fn, calls[k].result, calls[k].err)
                 /\ \A r \in C5_Errors(calls[k].fn) \ {calls[k].result} :
                        \A e \in ErrPayloads(r) :
                            C5_Message(calls[k].fn, r, e) /= stderr[1]
                 /\ C5_Confirmation(calls[k].fn) \notin Range(stdout)
                 /\ Exited
                 /\ exit_status /= <<0>>

C5_Witness ==
    /\ calls /= <<>>
    /\ LastCall.fn = "update_bitcoin_app"
    /\ LastCall.result = "AlreadyLatest"
    /\ stderr = <<"Bitcoin app is already at the latest version.">>
    /\ Exited

----------------------------------------------------------------------------
Confirmations ==
    {C5_Confirmation(fn) : fn \in C5_Fns} \cup {GenuineMsg, "Installed applications:"}

C6_Terminal ==
    /\ \A k \in 1..Len(calls) :
          calls[k].result /= "Ok" => (k = Len(calls) /\ Exited)
    /\ stderr /= <<>> =>
          /\ Exited
          /\ Len(stderr) = 1
          /\ Range(stdout) \cap Confirmations = {}
    /\ \A k \in 1..Len(calls) :
          calls[k].fn = "list_installed_apps" =>
              /\ k > 1
              /\ calls[k - 1] = Call("DeviceInfo::new", <<>>, "Ok", "")

C6_NothingAfter ==
    stderr /= <<>> => UNCHANGED <<calls, stdout, stderr, exit_status, pc>>

\* C6: once a failure has been reported nothing else happens in the run: the
\* failed call is the last call, the process has ended, no success
\* confirmation was or will be printed and no later step changes the calls or
\* the output; list_installed_apps is called only right after a successful
\* device_info.
C6_ReportIsTerminal == []C6_Terminal /\ [][C6_NothingAfter]_vars

C6_Witness ==
    /\ calls /= <<>>
    /\ LastCall.fn = "DeviceInfo::new"
    /\ LastCall.result = "Err"
    /\ stderr /= <<>>
    /\ Exited

----------------------------------------------------------------------------
\* C7: 'Success. Your Ledger is genuine.' is on stdout if and only if
\* genuine_check returned success; when it returned an error the run reported
\* it on stderr and ended with a non-zero status, with genuine_check its last
\* device call.
C7_GenuineConfirmation ==
    /\ GenuineMsg \in Range(stdout) <=>
          \E k \in 1..Len(calls) :
              calls[k].fn = "genuine_check" /\ calls[k].result = "Ok"
    /\ \A k \in 1..Len(calls) :
          (calls[k].fn = "genuine_check" /\ calls[k].result /= "Ok") =>
              /\ k = Len(calls)
              /\ stderr = <<"Error when performing genuine check: " \o calls[k].err>>
              /\ Exited
              /\ exit_status /= <<0>>
    /\ (command = Some("GenuineCheck") /\ Exited /\ exit_status = <<0>>) =>
          GenuineMsg \in Range(stdout)

C7_Witness ==
    /\ command = Some("GenuineCheck")
    /\ calls /= <<>>
    /\ LastCall.fn = "genuine_check"
    /\ LastCall.result = "Err"
    /\ Exited

----------------------------------------------------------------------------
C9_Operation ==
    CASE LEDGER_COMMAND = Str("installapp") -> "install"
      [] LEDGER_COMMAND = Str("updateapp") -> "update"
      [] LEDGER_COMMAND = Str("openapp") -> "open"
      [] OTHER -> "none"

\* C9 (as stated): a run executes at most one workflow, the one its
\* configuration names: for installapp, updateapp and openapp, with the
\* alternate flag set the generic primitive is called with the Solana
\* identifier and no network selector, and with it unset the Bitcoin primitive
\* is called with a network selector that is true exactly when LEDGER_TESTNET
\* is set; no primitive of another operation or target is called.
C9_WorkflowMatchesConfiguration ==
    /\ Cardinality(CalledFns \ (TransportFns \cup {"DeviceInfo::new"})) <= 1
    /\ C9_Operation /= "none" =>
          \A k \in 1..Len(calls) :
              calls[k].fn \in DevicePrimitives =>
                  IF SolanaFlag
                  THEN /\ calls[k].fn = C9_Operation \o "_app"
                       /\ calls[k].args = <<"LedgerApp::Solana">>
                  ELSE /\ calls[k].fn = C9_Operation \o "_bitcoin_app"
                       /\ calls[k].args = <<BoolArg(LEDGER_TESTNET.set)>>

----------------------------------------------------------------------------
\* C10: the HID API is initialised at most once and the transport opened at
\* most once, after a successful resolution; every device primitive is
\* called after both succeeded; when either fails the failure is reported on
\* stderr, the process ends with status 1 and nothing is called afterwards.
C10_TransportAcquisition ==
    /\ \A fn \in TransportFns :
          Cardinality({k \in 1..Len(calls) : calls[k].fn = fn}) <= 1
    /\ calls /= <<>> => (command /= None /\ calls[1].fn = "HidApi::new")
    /\ Len(calls) >= 2 => (calls[1] = HidOk /\ calls[2].fn = "TransportNativeHID::new")
    /\ \A k \in 1..Len(calls) :
          calls[k].fn \in DevicePrimitives =>
              (k >= 3 /\ calls[1] = HidOk /\ calls[2] = TransportOk)
    /\ \A k \in 1..Len(calls) :
          (calls[k].fn \in TransportFns /\ calls[k].result /= "Ok") =>
              /\ k = Len(calls)
              /\ Exited
              /\ exit_status = <<1>>
              /\ Len(stderr) = 1
              /\ stderr[1] \in
                    {"Error initializing HDI api: " \o calls[k].err \o ".",
                     "Error connecting to Ledger device: " \o calls[k].err \o "."}
              /\ stdout = <<>>

C10_Witness ==
    /\ calls /= <<>>
    /\ Len(calls) = 2
    /\ LastCall.fn = "TransportNativeHID::new"
    /\ LastCall.result = "Err"
    /\ Exited

====
